---- MODULE Spec2Model ----
(***************************************************************************)
(* Model of drummer.c: the step sequencer (generate_sample), the block     *)
(* producer (drum_fill_buffer), the DMA completion handler (dma_handler)   *)
(* and the start-up sequence and pump loop of main.                        *)
(***************************************************************************)
EXTENDS Integers, Sequences, FiniteSets, TLC

\* ---- program constants (drummer.c:21-23, 87-93) ----
N_BUFFERS == 4
BUFFER_SIZE == 49
N_VOICES == 6
BPM == 155
BEATS_PER_BAR == 4
BAR_LEN == 72
LOOP_BARS == 10

\* SAMPLE_RATE is (int)(125000000/PIO_I2S_CLKDIV/32/2) with PIO_I2S_CLKDIV =
\* 44.25 = 177/4; the quotient is far from an integer, so the truncated
\* floating-point value equals the truncated rational value.
SAMPLE_RATE == ((125000000 * 4) \div 177) \div (32 * 2)

\* ---- model bounds ----
\* number of DMA completion interrupts explored in the full program model
MaxIrq == 17
\* number of blocks drum_fill_buffer fills in the model with fairness
MaxLiveFills == 6
\* number of ticks explored in the sequencer model (two arrangement loops)
MaxTicks == 1440
\* the sequencer model also starts this many calls before the end of a bar
StartMargin == 40
\* number of ticks explored in the voice model (one arrangement loop and
\* the first ticks of the next)
MaxVoiceTicks == 730
\* number of leading generate_sample return values kept for comparison
LogLen == 4

\* character codes used by the pattern grids
SPACE == 32
ONE == 49

\* One row of a pattern grid: the cells that are not ' ' are listed as
\* <<column, character code>>, every other column holds a space.
Row(cells) ==
  [t \in 0..(BAR_LEN - 1) |->
     IF \E c \in cells : c[1] = t
     THEN (CHOOSE c \in cells : c[1] = t)[2]
     ELSE SPACE]

pattern0 ==
  << Row({<<0, 49>>, <<9, 49>>, <<31, 49>>, <<36, 49>>, <<45, 49>>}),
     Row({}),
     Row({<<18, 49>>, <<54, 49>>}),
     Row({}),
     Row({<<0, 49>>, <<9, 49>>, <<18, 49>>, <<27, 49>>, <<36, 49>>, <<45, 49>>, <<54, 49>>, <<63, 49>>}),
     Row({}) >>

pattern1 ==
  << Row({<<0, 57>>, <<36, 49>>}),
     Row({}),
     Row({<<0, 52>>, <<9, 49>>, <<18, 49>>, <<27, 49>>, <<36, 51>>, <<45, 49>>, <<54, 49>>, <<63, 49>>}),
     Row({}),
     Row({}),
     Row({}) >>

pattern2 ==
  << Row({<<0, 57>>, <<36, 49>>}),
     Row({<<9, 49>>, <<27, 49>>, <<45, 49>>, <<63, 49>>}),
     Row({<<0, 49>>, <<18, 49>>, <<36, 49>>, <<54, 49>>}),
     Row({<<0, 53>>, <<9, 49>>, <<18, 49>>, <<27, 49>>, <<36, 49>>, <<45, 49>>, <<63, 49>>}),
     Row({<<0, 53>>, <<27, 49>>, <<45, 49>>}),
     Row({<<9, 49>>, <<36, 52>>, <<63, 49>>}) >>

\* const struct Pattern *patterns[LOOP_BARS]: only the first three entries
\* are initialised, and bars[] refers to no other.
patterns == [p \in 0..2 |-> IF p = 0 THEN pattern0 ELSE IF p = 1 THEN pattern1 ELSE pattern2]

bars == [b \in 0..(LOOP_BARS - 1) |-> <<0, 0, 0, 2, 2, 2, 2, 2, 1, 0>>[b + 1]]

\* sounds[]: the five waveforms come from samples/drum_*.h, which are not
\* part of the sources at hand; only their lengths matter to the state.
\* The second is as short as a waveform that can be triggered may be.
sounds ==
  [s \in 0..4 |-> [len |-> <<12000, 2, 2000, 500, 9000>>[s + 1]]]

\* The amplitudes of the waveforms (samples/drum_*.h, not part of the
\* sources at hand): position 0 of every waveform is the idle sample and is
\* silent, every other position holds some signed 16-bit value.
Amp(s, p) == IF p = 0 THEN 0 ELSE ((p * 7919 + s * 12345) % 65536) - 32768

\* struct voice voices[N_VOICES] as initialised
\* (voicesInit_loud: the kick voice at volume 4000)
voicesInit_loud ==
  [i \in 0..(N_VOICES - 1) |->
     [pan    |-> <<16, 8, 16, 18, 28, 4>>[i + 1],
      volume |-> <<4000, 0, 40, 80, 30, 30>>[i + 1],
      sample |-> <<0, 1, 2, 3, 4, 0>>[i + 1],
      pos    |-> 0,
      emph   |-> 0]]

voicesInit ==
  [i \in 0..(N_VOICES - 1) |->
     [pan    |-> <<16, 8, 16, 18, 28, 4>>[i + 1],
      volume |-> <<192, 0, 40, 80, 30, 30>>[i + 1],
      sample |-> <<0, 1, 2, 3, 4, 0>>[i + 1],
      pos    |-> 0,
      emph   |-> 0]]

\* values of (int16_t)(15000.0*sin(k*2.0*3.142/400.0) + 15000.0), k = 0..399
ToneTable == <<
  15000,15235,15471,15706,15941,16177,16411,16646,16880,17113,17346,17579,17811,18042,18272,18502,18730,18958,19185,19411,
  19635,19859,20081,20302,20522,20740,20957,21173,21387,21599,21810,22019,22227,22432,22636,22838,23038,23236,23432,23626,
  23817,24007,24194,24379,24562,24742,24920,25096,25269,25439,25607,25772,25935,26095,26252,26407,26558,26707,26853,26996,
  27136,27273,27407,27538,27665,27790,27912,28030,28145,28257,28366,28471,28573,28671,28767,28859,28947,29032,29114,29192,
  29266,29337,29405,29469,29529,29586,29639,29688,29734,29777,29815,29850,29882,29909,29933,29953,29970,29983,29992,29998,
  29999,29998,29992,29983,29970,29953,29933,29909,29881,29849,29814,29776,29733,29687,29637,29584,29527,29467,29403,29335,
  29264,29190,29111,29030,28945,28856,28764,28669,28570,28468,28363,28254,28142,28027,27909,27787,27662,27534,27403,27269,
  27132,26992,26849,26703,26554,26403,26248,26091,25931,25768,25603,25435,25264,25091,24916,24738,24557,24374,24189,24002,
  23812,23621,23427,23231,23033,22833,22631,22427,22221,22014,21805,21594,21381,21167,20952,20735,20516,20297,20075,19853,
  19630,19405,19179,18952,18724,18496,18266,18036,17805,17573,17340,17107,16874,16640,16405,16170,15935,15700,15465,15229,
  14993,14758,14522,14287,14051,13816,13582,13347,13113,12880,12647,12414,12182,11951,11721,11491,11263,11035,10808,10583,
  10358,10134,9912,9691,9471,9253,9036,8820,8607,8394,8183,7974,7767,7561,7358,7156,6956,6758,6562,6368,
  6177,5987,5800,5615,5432,5252,5074,4899,4726,4555,4387,4222,4060,3900,3743,3588,3437,3288,3142,2999,
  2860,2723,2589,2458,2330,2206,2084,1966,1851,1739,1631,1525,1424,1325,1230,1138,1050,965,883,805,
  731,660,593,529,469,412,359,309,264,221,183,148,117,89,65,45,29,16,7,1,
  0,1,7,17,30,46,67,91,119,150,186,224,267,313,363,416,473,534,598,665,
  737,811,890,971,1056,1145,1237,1333,1431,1534,1639,1748,1860,1975,2094,2215,2340,2468,2599,2733,
  2870,3010,3154,3300,3449,3600,3755,3912,4072,4235,4400,4569,4739,4912,5088,5266,5447,5629,5815,6002,
  6192,6383,6577,6773,6971,7172,7374,7577,7783,7991,8200,8411,8623,8837,9053,9270,9488,9708,9929,10152,
  10375,10600,10826,11053,11281,11509,11739,11969,12200,12432,12665,12898,13131,13365,13600,13835,14070,14305,14540,14776
>>

VARIABLES
  buffer,          \* uint32_t buffer[N_BUFFERS][BUFFER_SIZE]; buffer[k][j] is buffer[k + 1][j + 1] here
  buffer_playing,  \* volatile int buffer_playing
  buffer_to_fill,  \* int buffer_to_fill
  dma_read,        \* block the DMA channel was last pointed at, -1 = none
  bar, tickOfBar, sampleOfTick, samplesPerBeat, samplesPerTick,
  voices,          \* struct voice voices[N_VOICES]
  index1,          \* int index1
  pc,              \* position of main
  caller,          \* where drum_fill_buffer returns to: "prime" or "loop"
  prime_i,         \* loop counter of the priming loop in main
  fill_i,          \* loop counter of drum_fill_buffer
  \* history variables: they record what the program did, never steer it
  nGen,            \* number of generate_sample calls made so far
  nFill,           \* number of blocks drum_fill_buffer has completed
  nXfer,           \* number of transfers dma_handler has started
  block_seq,       \* per block: ordinal of the fill that last completed it
  ready,           \* blocks holding one whole fill not yet handed to the DMA
  fill_clean,      \* the block being filled was not handed over meanwhile
  entry,           \* snapshot taken when drum_fill_buffer passed its guard
  ret_log,         \* values generate_sample returned during this fill
  last_call,       \* outcome of the last drum_fill_buffer call
  read_pos,        \* per voice: voices[i].pos when the last call read its amplitude
  samples,         \* int32_t samples[N_VOICES] of the last generate_sample call
  output,          \* int32_t output[2] of the last call: <<output[0], output[1]>>
  first_ret        \* the values the first LogLen generate_sample calls returned

ringVars == <<buffer, buffer_playing, buffer_to_fill, dma_read>>
seqVars == <<bar, tickOfBar, sampleOfTick, voices, index1, nGen, read_pos, samples,
             output, first_ret>>
timingVars == <<samplesPerBeat, samplesPerTick>>
histVars == <<nFill, nXfer, block_seq, ready, fill_clean, entry, ret_log, last_call>>
vars == <<buffer, buffer_playing, buffer_to_fill, dma_read, bar, tickOfBar,
          sampleOfTick, samplesPerBeat, samplesPerTick, voices, index1, pc,
          caller, prime_i, fill_i, nGen, nFill, nXfer, block_seq, ready,
          fill_clean, entry, ret_log, last_call, read_pos, samples, output,
          first_ret>>

Blocks == 0..(N_BUFFERS - 1)
Slots == 0..(BUFFER_SIZE - 1)

\* ---- generate_sample ----

\* lines 214-217: one voice at the start of a tick, c the pattern cell
\* (TriggerVoice_next: the emphasis of the next digit)
TriggerVoice_next(v, c) ==
  IF c # SPACE THEN [v EXCEPT !.pos = 1, !.emph = (c - ONE + 1) * 12] ELSE v

TriggerVoice(v, c) ==
  IF c # SPACE THEN [v EXCEPT !.pos = 1, !.emph = (c - ONE) * 12] ELSE v

\* lines 212-219
Trigger(vs, b, t, s) ==
  IF s = 0
  THEN [i \in 0..(N_VOICES - 1) |-> TriggerVoice(vs[i], patterns[bars[b]][i + 1][t])]
  ELSE vs

\* lines 223-231: cursor of one voice after its amplitude has been read
\* (AdvanceVoice_loop: the waveform starts over at its end; AdvanceVoice_late:
\* the end is noticed one position late)
AdvanceVoice_loop(v) ==
  IF v.sample >= 0 /\ v.pos # 0
  THEN IF v.pos + 1 >= sounds[v.sample].len
       THEN [v EXCEPT !.pos = 1]
       ELSE [v EXCEPT !.pos = v.pos + 1]
  ELSE v

AdvanceVoice_late(v) ==
  IF v.sample >= 0 /\ v.pos # 0
  THEN IF v.pos + 1 > sounds[v.sample].len
       THEN [v EXCEPT !.pos = 0]
       ELSE [v EXCEPT !.pos = v.pos + 1]
  ELSE v

AdvanceVoice(v) ==
  IF v.sample >= 0 /\ v.pos # 0
  THEN IF v.pos + 1 >= sounds[v.sample].len
       THEN [v EXCEPT !.pos = 0]
       ELSE [v EXCEPT !.pos = v.pos + 1]
  ELSE v

\* NextTransport with one of its three boundaries off by one; the transport
\* properties below are checked to tell each of them from NextTransport
NextTransport_wrapSample(b, t, s, spt) ==
  IF s + 1 = spt + 1
  THEN IF t + 1 = BAR_LEN
       THEN IF b + 1 = LOOP_BARS
            THEN [bar |-> 0, tick |-> 0, sample |-> 0]
            ELSE [bar |-> b + 1, tick |-> 0, sample |-> 0]
       ELSE [bar |-> b, tick |-> t + 1, sample |-> 0]
  ELSE [bar |-> b, tick |-> t, sample |-> s + 1]

NextTransport_wrapTick(b, t, s, spt) ==
  IF s + 1 = spt
  THEN IF t + 1 = BAR_LEN - 1
       THEN IF b + 1 = LOOP_BARS
            THEN [bar |-> 0, tick |-> 0, sample |-> 0]
            ELSE [bar |-> b + 1, tick |-> 0, sample |-> 0]
       ELSE [bar |-> b, tick |-> t + 1, sample |-> 0]
  ELSE [bar |-> b, tick |-> t, sample |-> s + 1]

NextTransport_wrapBar(b, t, s, spt) ==
  IF s + 1 = spt
  THEN IF t + 1 = BAR_LEN
       THEN IF b + 1 = LOOP_BARS - 1
            THEN [bar |-> 0, tick |-> 0, sample |-> 0]
            ELSE [bar |-> b + 1, tick |-> 0, sample |-> 0]
       ELSE [bar |-> b, tick |-> t + 1, sample |-> 0]
  ELSE [bar |-> b, tick |-> t, sample |-> s + 1]

\* lines 242-252
NextTransport(b, t, s, spt) ==
  IF s + 1 = spt
  THEN IF t + 1 = BAR_LEN
       THEN IF b + 1 = LOOP_BARS
            THEN [bar |-> 0, tick |-> 0, sample |-> 0]
            ELSE [bar |-> b + 1, tick |-> 0, sample |-> 0]
       ELSE [bar |-> b, tick |-> t + 1, sample |-> 0]
  ELSE [bar |-> b, tick |-> t, sample |-> s + 1]

\* lines 222-224: the amplitudes read, vs the voices after the trigger step
\* (SamplesRead_next: read one position further on)
SamplesRead_next(vs) ==
  [i \in 0..(N_VOICES - 1) |->
     IF vs[i].sample >= 0 THEN Amp(vs[i].sample, vs[i].pos + 1) ELSE 0]

SamplesRead(vs) ==
  [i \in 0..(N_VOICES - 1) |->
     IF vs[i].sample >= 0 THEN Amp(vs[i].sample, vs[i].pos) ELSE 0]

\* line 237
Vol(v) == v.emph + v.volume

\* lines 238-239: the weight of a voice in output[ch]
\* (PanWeight_short: the right weight taken from 31)
PanWeight_short(v, ch) == IF ch = 0 THEN v.pan ELSE 31 - v.pan

PanWeight(v, ch) == IF ch = 0 THEN v.pan ELSE 32 - v.pan

\* lines 238-239: what one voice adds to output[ch]
Term(v, a, ch) == Vol(v) * a * PanWeight(v, ch)

\* lines 234-240: output[ch] after the first k voices have been added
RECURSIVE MixPartial(_, _, _, _)
MixPartial(vs, amps, ch, k) ==
  IF k = 0 THEN 0
  ELSE MixPartial(vs, amps, ch, k - 1) + Term(vs[k - 1], amps[k - 1], ch)

\* lines 236-240: the largest magnitude output[ch] can have after the first k
\* voices per unit of amplitude, that is the sum of |vol * weight| over them
RECURSIVE WorstUnits(_, _, _)
WorstUnits(vs, ch, k) ==
  IF k = 0 THEN 0
  ELSE LET w == Vol(vs[k - 1]) * PanWeight(vs[k - 1], ch)
       IN  WorstUnits(vs, ch, k - 1) + (IF w < 0 THEN 0 - w ELSE w)

MixOutput(vs, amps) ==
  << MixPartial(vs, amps, 0, N_VOICES), MixPartial(vs, amps, 1, N_VOICES) >>

\* lines 257-258
ToneIndex(k) == IF k >= 400 THEN 0 ELSE k

\* lines 259-267: both int16_t halves of the union hold ret; the value of
\* the uint32_t member on the little-endian target
PackFrame(lo, hi) == (lo % 65536) + 65536 * (hi % 65536)

ToneFrame(k) == PackFrame(ToneTable[ToneIndex(k) + 1], ToneTable[ToneIndex(k) + 1])

\* the value generate_sample returns when called in the current state
GenRet == ToneFrame(index1)

\* the effect of one generate_sample call on the sequencer state
GenerateSample ==
  /\ voices' = [i \in 0..(N_VOICES - 1) |->
                  AdvanceVoice(Trigger(voices, bar, tickOfBar, sampleOfTick)[i])]
  /\ LET n == NextTransport(bar, tickOfBar, sampleOfTick, samplesPerTick)
     IN  /\ bar' = n.bar
         /\ tickOfBar' = n.tick
         /\ sampleOfTick' = n.sample
  /\ index1' = ToneIndex(index1) + 1
  /\ nGen' = nGen + 1
  /\ LET vs == Trigger(voices, bar, tickOfBar, sampleOfTick)
     IN  /\ read_pos' = [i \in 0..(N_VOICES - 1) |-> vs[i].pos]
         /\ samples' = SamplesRead(vs)
         /\ output' = MixOutput(vs, samples')
  /\ first_ret' = IF Len(first_ret) < LogLen THEN Append(first_ret, GenRet) ELSE first_ret

\* main, lines 429-430
BeatSamples == (SAMPLE_RATE * 60) \div BPM
TickSamples(spb) == (spb * BEATS_PER_BAR) \div BAR_LEN

\* position of the transport counted in frames from the top of the loop
LinearPos == (bar * BAR_LEN + tickOfBar) * samplesPerTick + sampleOfTick

\* ---- dma_handler ----

\* lines 35-38
NextPlaying(p) == IF p = N_BUFFERS - 1 THEN 0 ELSE p + 1

\* lines 30-39.  The handler runs to completion with respect to main: it is
\* the interrupt handler, and main's own call comes before any transfer can
\* have completed.  The count of transfers stops at MaxIrq + 1.
dma_handler ==
  /\ dma_read' = buffer_playing
  /\ buffer_playing' = NextPlaying(buffer_playing)
  /\ nXfer' = IF nXfer > MaxIrq THEN nXfer ELSE nXfer + 1
  /\ ready' = ready \ {buffer_playing}
  /\ fill_clean' = (fill_clean /\ ~(pc = "store" /\ buffer_playing = buffer_to_fill))

\* ---- drum_fill_buffer ----

\* line 282 (Stalled_never: the guard left out)
Stalled_never(playing, to_fill) == FALSE

Stalled(playing, to_fill) == playing = to_fill

\* line 288 (NextFill_skip: the cursor advanced by two)
NextFill_skip(f) == (f + 2) % N_BUFFERS

NextFill(f) == (f + 1) % N_BUFFERS

\* return of drum_fill_buffer to its caller in main (lines 432-434, 448-450)
Return(outcome) ==
  /\ pc' = caller
  /\ prime_i' = IF caller = "prime" THEN prime_i + 1 ELSE prime_i
  /\ last_call' = outcome

\* lines 282-283 and the loop initialisation of line 285
FillGuard ==
  /\ pc = "guard"
  /\ IF Stalled(buffer_playing, buffer_to_fill)
     THEN /\ Return("noop")
          /\ UNCHANGED <<fill_i, ready, fill_clean, entry, ret_log>>
     ELSE /\ pc' = "store"
          /\ fill_i' = 0
          /\ ready' = ready \ {buffer_to_fill}
          /\ fill_clean' = TRUE
          /\ entry' = [buffer |-> buffer, to_fill |-> buffer_to_fill,
                       nGen |-> nGen, pos |-> LinearPos]
          /\ ret_log' = << >>
          /\ UNCHANGED <<prime_i, last_call>>
  /\ UNCHANGED <<ringVars, seqVars, timingVars, caller, nFill, nXfer, block_seq>>

\* lines 285-287, one iteration
FillStore ==
  /\ pc = "store"
  /\ fill_i < BUFFER_SIZE
  /\ buffer' = [buffer EXCEPT ![buffer_to_fill + 1][fill_i + 1] = GenRet]
  /\ GenerateSample
  /\ fill_i' = fill_i + 1
  /\ ret_log' = Append(ret_log, GenRet)
  /\ UNCHANGED <<buffer_playing, buffer_to_fill, dma_read, timingVars, pc, caller,
                 prime_i, nFill, nXfer, block_seq, ready, fill_clean, entry,
                 last_call>>

\* loop exit and line 288
FillAdvance ==
  /\ pc = "store"
  /\ fill_i = BUFFER_SIZE
  /\ buffer_to_fill' = NextFill(buffer_to_fill)
  /\ nFill' = nFill + 1
  /\ block_seq' = [block_seq EXCEPT ![buffer_to_fill] = nFill + 1]
  /\ ready' = IF fill_clean THEN ready \cup {buffer_to_fill} ELSE ready
  /\ Return("filled")
  /\ UNCHANGED <<buffer, buffer_playing, dma_read, seqVars, timingVars, caller,
                 fill_i, nXfer, fill_clean, entry, ret_log>>

\* ---- main ----

\* line 431
PrimePlaying == -1

\* line 432: number of drum_fill_buffer calls of the priming loop
\* (PrimeCalls_short: a loop bound one too small)
PrimeCalls_short == N_BUFFERS - 1

PrimeCalls == N_BUFFERS

\* line 435
StartPlaying == N_BUFFERS - 1

\* lines 429-431 and the loop initialisation of line 432
MainTiming ==
  /\ pc = "timing"
  /\ samplesPerBeat' = BeatSamples
  /\ samplesPerTick' = TickSamples(BeatSamples)
  /\ buffer_playing' = PrimePlaying
  /\ prime_i' = 0
  /\ pc' = "prime"
  /\ UNCHANGED <<buffer, buffer_to_fill, dma_read, seqVars, caller, fill_i, histVars>>

\* lines 432-433: the call of drum_fill_buffer from the priming loop
PrimeCall ==
  /\ pc = "prime"
  /\ prime_i < PrimeCalls
  /\ pc' = "guard"
  /\ caller' = "prime"
  /\ UNCHANGED <<ringVars, seqVars, timingVars, prime_i, fill_i, histVars>>

\* line 435, after the priming loop
PrimeDone ==
  /\ pc = "prime"
  /\ prime_i = PrimeCalls
  /\ buffer_playing' = StartPlaying
  /\ pc' = "start"
  /\ UNCHANGED <<buffer, buffer_to_fill, dma_read, seqVars, timingVars, caller,
                 prime_i, fill_i, histVars>>

\* lines 441-442: setup_dma leaves the channel stopped, the call of
\* dma_handler starts the first transfer
StartDma ==
  /\ pc = "start"
  /\ dma_handler
  /\ pc' = "loop"
  /\ UNCHANGED <<buffer, buffer_to_fill, seqVars, timingVars, caller, prime_i,
                 fill_i, nFill, block_seq, entry, ret_log, last_call>>

\* lines 448-449: the call of drum_fill_buffer from the pump loop
\* (LoopCall_unguarded: the pump loop disabling the guard as line 431 does)
LoopCall_unguarded ==
  /\ pc = "loop"
  /\ pc' = "guard"
  /\ caller' = "loop"
  /\ buffer_playing' = PrimePlaying
  /\ UNCHANGED <<buffer, buffer_to_fill, dma_read, seqVars, timingVars, prime_i,
                 fill_i, histVars>>

LoopCall ==
  /\ pc = "loop"
  /\ pc' = "guard"
  /\ caller' = "loop"
  /\ UNCHANGED <<ringVars, seqVars, timingVars, prime_i, fill_i, histVars>>

\* the completion interrupt of the running transfer: dma_handler preempts
\* main between any two of its steps once the first transfer was started
DmaIrq ==
  /\ nXfer >= 1
  /\ nXfer <= MaxIrq
  /\ dma_handler
  /\ UNCHANGED <<buffer, buffer_to_fill, seqVars, timingVars, pc, caller,
                 prime_i, fill_i, nFill, block_seq, entry, ret_log, last_call>>

\* the state after static initialisation (lines 25-28, 96-100, 121-128, 176)
Init ==
  /\ buffer = [k \in 1..N_BUFFERS |-> [j \in 1..BUFFER_SIZE |-> 0]]
  /\ buffer_playing = 0
  /\ buffer_to_fill = 0
  /\ dma_read = -1
  /\ bar = 0 /\ tickOfBar = 0 /\ sampleOfTick = 0
  /\ samplesPerBeat = 0
  /\ samplesPerTick = 0
  /\ voices = voicesInit
  /\ index1 = 0
  /\ pc = "timing"
  /\ caller = "prime"
  /\ prime_i = 0
  /\ fill_i = 0
  /\ nGen = 0
  /\ nFill = 0
  /\ nXfer = 0
  /\ block_seq = [k \in Blocks |-> 0]
  /\ ready = {}
  /\ fill_clean = TRUE
  /\ entry = [buffer |-> [k \in 1..N_BUFFERS |-> [j \in 1..BUFFER_SIZE |-> 0]], to_fill |-> 0,
              nGen |-> 0, pos |-> 0]
  /\ ret_log = << >>
  /\ last_call = "none"
  /\ read_pos = [i \in 0..(N_VOICES - 1) |-> 0]
  /\ samples = [i \in 0..(N_VOICES - 1) |-> 0]
  /\ output = <<0, 0>>
  /\ first_ret = << >>

Next ==
  \/ MainTiming
  \/ PrimeCall
  \/ PrimeDone
  \/ StartDma
  \/ LoopCall
  \/ FillGuard
  \/ FillStore
  \/ FillAdvance
  \/ DmaIrq

Spec == Init /\ [][Next]_vars

\* ---- the program with its scheduling: main keeps running and the ----
\* ---- completion interrupt keeps coming                            ----

\* the completion interrupt, with no limit on how often it comes
LiveIrq ==
  /\ nXfer >= 1
  /\ dma_handler
  /\ UNCHANGED <<buffer, buffer_to_fill, seqVars, timingVars, pc, caller,
                 prime_i, fill_i, nFill, block_seq, entry, ret_log, last_call>>

\* drum_fill_buffer's guard, for the first MaxLiveFills blocks
LiveFillGuard ==
  /\ nFill < MaxLiveFills
  /\ FillGuard

\* the steps of main and of the drum_fill_buffer calls it makes
MainStep ==
  \/ MainTiming
  \/ PrimeCall
  \/ PrimeDone
  \/ StartDma
  \/ LoopCall
  \/ LiveFillGuard
  \/ FillStore
  \/ FillAdvance

LiveNext ==
  \/ MainStep
  \/ LiveIrq

\* main runs whenever no interrupt does, and a started transfer completes
LiveSpec ==
  /\ Init
  /\ [][LiveNext]_vars
  /\ WF_vars(MainStep)
  /\ WF_vars(LiveIrq)

\* ---- the sequencer on its own: generate_sample called over and over, ----
\* ---- as drum_fill_buffer does, from the state main sets up           ----

\* length of a bar and of the arrangement loop in frames
BarCalls == BAR_LEN * TickSamples(BeatSamples)
LoopLen == LOOP_BARS * BarCalls

\* The state of the sequencer after n calls of generate_sample from the
\* initial state, written out from the call count: SeqOnChain below checks
\* it against the calls themselves.
CellAt(i, tick) == patterns[bars[(tick \div BAR_LEN) % LOOP_BARS]][i + 1][tick % BAR_LEN]

TriggersBefore(i, n) ==
  IF n = 0 THEN {}
  ELSE {tick \in 0..((n - 1) \div TickSamples(BeatSamples)) : CellAt(i, tick) # SPACE}

MaxOf(S) == CHOOSE x \in S : \A y \in S : y <= x

VoiceAt(i, n) ==
  IF TriggersBefore(i, n) = {}
  THEN voicesInit[i]
  ELSE LET tick == MaxOf(TriggersBefore(i, n))
           k == n - tick * TickSamples(BeatSamples)
       IN  [voicesInit[i] EXCEPT
              !.pos = IF k + 1 >= sounds[voicesInit[i].sample].len THEN 0 ELSE k + 1,
              !.emph = (CellAt(i, tick) - ONE) * 12]

SeqAt(n) ==
  [bar    |-> (n \div BarCalls) % LOOP_BARS,
   tick   |-> (n \div TickSamples(BeatSamples)) % BAR_LEN,
   sample |-> n % TickSamples(BeatSamples),
   voices |-> [i \in 0..(N_VOICES - 1) |-> VoiceAt(i, n)],
   index1 |-> IF n = 0 THEN 0 ELSE ((n - 1) % 400) + 1]

\* the voices as call number n + 1 reads their amplitudes
ReadAt(n) == Trigger(SeqAt(n).voices, SeqAt(n).bar, SeqAt(n).tick, SeqAt(n).sample)

\* the values the first LogLen calls out of n returned
FirstRetAt(n) ==
  [k \in 1..(IF n < LogLen THEN n ELSE LogLen) |-> ToneFrame(SeqAt(k - 1).index1)]

\* call counts the sequencer model starts from: the initial state, and
\* shortly before the end of the 1st, 4th, 10th (end of the first loop) and
\* 20th bar (end of the second loop)
StartCalls == {0} \cup {m * BarCalls - StartMargin : m \in {1, 4, 10, 20}}

SeqInitAt(starts) ==
  /\ buffer = [k \in 1..N_BUFFERS |-> [j \in 1..BUFFER_SIZE |-> 0]]
  /\ buffer_playing = PrimePlaying
  /\ buffer_to_fill = 0
  /\ dma_read = -1
  /\ samplesPerBeat = BeatSamples
  /\ samplesPerTick = TickSamples(BeatSamples)
  /\ \E n \in starts :
       /\ nGen = n
       /\ bar = SeqAt(n).bar
       /\ tickOfBar = SeqAt(n).tick
       /\ sampleOfTick = SeqAt(n).sample
       /\ voices = SeqAt(n).voices
       /\ index1 = SeqAt(n).index1
       /\ first_ret = FirstRetAt(n)
       /\ IF n = 0
          THEN /\ read_pos = [i \in 0..(N_VOICES - 1) |-> 0]
               /\ samples = [i \in 0..(N_VOICES - 1) |-> 0]
               /\ output = <<0, 0>>
          ELSE /\ read_pos = [i \in 0..(N_VOICES - 1) |-> ReadAt(n - 1)[i].pos]
               /\ samples = SamplesRead(ReadAt(n - 1))
               /\ output = MixOutput(ReadAt(n - 1), SamplesRead(ReadAt(n - 1)))
  /\ pc = "seq"
  /\ caller = "prime"
  /\ prime_i = 0
  /\ fill_i = 0
  /\ nFill = 0
  /\ nXfer = 0
  /\ block_seq = [k \in Blocks |-> 0]
  /\ ready = {}
  /\ fill_clean = TRUE
  /\ entry = [buffer |-> [k \in 1..N_BUFFERS |-> [j \in 1..BUFFER_SIZE |-> 0]],
              to_fill |-> 0, nGen |-> 0, pos |-> 0]
  /\ ret_log = << >>
  /\ last_call = "none"

SeqStep ==
  /\ pc = "seq"
  /\ nGen < MaxTicks * samplesPerTick
  /\ GenerateSample
  /\ UNCHANGED <<ringVars, timingVars, pc, caller, prime_i, fill_i, histVars>>

SeqNext == SeqStep

\* from the initial state alone
SeqChainInit == SeqInitAt({0})
SeqChainSpec == SeqChainInit /\ [][SeqNext]_vars

\* every state SeqAt names is the state the calls lead to
SeqOnChain ==
  (nGen \in StartCalls \/ nGen % 9973 = 0)
    => /\ bar = SeqAt(nGen).bar
       /\ tickOfBar = SeqAt(nGen).tick
       /\ sampleOfTick = SeqAt(nGen).sample
       /\ voices = SeqAt(nGen).voices
       /\ index1 = SeqAt(nGen).index1
       /\ first_ret = FirstRetAt(nGen)
       /\ nGen > 0 =>
            /\ read_pos = [i \in 0..(N_VOICES - 1) |-> ReadAt(nGen - 1)[i].pos]
            /\ samples = SamplesRead(ReadAt(nGen - 1))
            /\ output = MixOutput(ReadAt(nGen - 1), SamplesRead(ReadAt(nGen - 1)))

\* from the initial state and from the later states on the same run
SeqInit == SeqInitAt(StartCalls)
SeqSpec == SeqInit /\ [][SeqNext]_vars

\* ---- the same calls over one arrangement loop and into the next, for the ----
\* ---- properties of the voices and of the mix                            ----

VoiceStep ==
  /\ pc = "seq"
  /\ nGen < MaxVoiceTicks * samplesPerTick
  /\ GenerateSample
  /\ UNCHANGED <<ringVars, timingVars, pc, caller, prime_i, fill_i, histVars>>

VoiceNext == VoiceStep

VoiceInit == SeqInitAt({n \in StartCalls : n < LoopLen})
VoiceSpec == VoiceInit /\ [][VoiceNext]_vars

\* ---- the mixing loop on its own (lines 234-240), applied to one voice ----
\* ---- sounding at a time, over pans, emphases and amplitudes           ----

MixPans == 0..32
MixEmphs == {(d - 1) * 12 : d \in 1..9}
MixAmps == {-32768, -20000, -1, 0, 1, 12345, 32767}

MixInit ==
  /\ buffer = [k \in 1..N_BUFFERS |-> [j \in 1..BUFFER_SIZE |-> 0]]
  /\ buffer_playing = 0
  /\ buffer_to_fill = 0
  /\ dma_read = -1
  /\ bar = 0 /\ tickOfBar = 0 /\ sampleOfTick = 0
  /\ samplesPerBeat = 0
  /\ samplesPerTick = 0
  /\ \E i \in 0..(N_VOICES - 1), pan \in MixPans, emph \in MixEmphs, a \in MixAmps :
       /\ voices = [voicesInit EXCEPT ![i].pan = pan, ![i].emph = emph]
       /\ samples = [j \in 0..(N_VOICES - 1) |-> IF j = i THEN a ELSE 0]
  /\ output = <<0, 0>>
  /\ index1 = 0
  /\ pc = "mix"
  /\ caller = "prime"
  /\ prime_i = 0
  /\ fill_i = 0
  /\ nGen = 0
  /\ nFill = 0
  /\ nXfer = 0
  /\ block_seq = [k \in Blocks |-> 0]
  /\ ready = {}
  /\ fill_clean = TRUE
  /\ entry = [buffer |-> [k \in 1..N_BUFFERS |-> [j \in 1..BUFFER_SIZE |-> 0]],
              to_fill |-> 0, nGen |-> 0, pos |-> 0]
  /\ ret_log = << >>
  /\ last_call = "none"
  /\ read_pos = [i \in 0..(N_VOICES - 1) |-> 0]
  /\ first_ret = << >>

MixStep ==
  /\ pc = "mix"
  /\ output' = MixOutput(voices, samples)
  /\ pc' = "mixed"
  /\ UNCHANGED <<ringVars, timingVars, bar, tickOfBar, sampleOfTick, voices, index1,
                 nGen, read_pos, samples, first_ret, caller, prime_i, fill_i, histVars>>

MixNext == MixStep

MixSpec == MixInit /\ [][MixNext]_vars

\* ---- properties ----

Started == nXfer >= 1
Storing == pc = "store" /\ fill_i < BUFFER_SIZE
HandlerStep == nXfer' = nXfer + 1

\* C1: once playback has started, while drum_fill_buffer is storing frames
\* into buffer[k] the transfer most recently started by dma_handler is not
\* reading buffer[k].
C1_NoWriteWhileRead ==
  (Started /\ Storing) => dma_read # buffer_to_fill

\* C2: every time dma_handler starts a transfer of buffer[k], buffer[k] has
\* been filled completely since it was last handed to the DMA.
C2_NoStaleReplay ==
  [][HandlerStep => buffer_playing \in ready]_vars

\* C3: the n-th transfer started by dma_handler (main's own call being the
\* first) reads the n-th block drum_fill_buffer produced.
C3_DrainInFillOrder ==
  [][HandlerStep => block_seq[buffer_playing] = nXfer + 1]_vars

\* C4: a drum_fill_buffer call that finds buffer_to_fill equal to
\* buffer_playing returns at once: no block, no cursor, no transport or voice
\* state changes, generate_sample is not called, and main is back where it
\* made the call, so that a repeated call starts from the identical state.
C4_StalledFillIsNoop ==
  [][(pc = "guard" /\ buffer_playing = buffer_to_fill /\ pc' # pc)
       => /\ pc' = caller
          /\ UNCHANGED <<buffer, buffer_playing, buffer_to_fill, dma_read, bar,
                         tickOfBar, sampleOfTick, samplesPerBeat,
                         samplesPerTick, voices, index1, caller, prime_i,
                         nGen, nFill>>]_vars

C4_Witness ==
  /\ pc = "loop"
  /\ last_call = "noop"
  /\ buffer_playing = buffer_to_fill
  /\ nXfer >= 2

\* C5: a drum_fill_buffer call that passes its guard calls generate_sample
\* exactly BUFFER_SIZE times, leaves the BUFFER_SIZE returned values in call
\* order in slots 0..BUFFER_SIZE-1 of the block buffer_to_fill named at
\* entry, leaves every other block as it was at entry, sets buffer_to_fill to
\* its successor modulo N_BUFFERS, and has moved the transport on by exactly
\* BUFFER_SIZE frames.
C5_FillOneBlock ==
  [][(pc = "store" /\ pc' # pc)
       => /\ nGen' = entry.nGen + BUFFER_SIZE
          /\ Len(ret_log) = BUFFER_SIZE
          /\ \A j \in Slots : buffer'[entry.to_fill + 1][j + 1] = ret_log[j + 1]
          /\ \A k \in Blocks \ {entry.to_fill} : buffer'[k + 1] = entry.buffer[k + 1]
          /\ buffer_to_fill' = (entry.to_fill + 1) % N_BUFFERS
          /\ LinearPos' = (entry.pos + BUFFER_SIZE) % (LOOP_BARS * BAR_LEN * samplesPerTick)]_vars

\* a fill in steady state that wrapped buffer_to_fill to 0 and during which
\* the transport crossed from tick 0 into tick 1
C5_Witness ==
  /\ pc = "loop"
  /\ last_call = "filled"
  /\ nXfer >= 2
  /\ nFill > N_BUFFERS
  /\ entry.to_fill = N_BUFFERS - 1
  /\ buffer_to_fill = 0
  /\ entry.pos < samplesPerTick
  /\ tickOfBar = 1

\* the frames of the k-th block in the order generate_sample produced them
\* from the initial state
PrimedBlock(k) == [j \in 1..BUFFER_SIZE |-> ToneFrame((k * BUFFER_SIZE + j - 1) % 400)]

AllPrimed ==
  /\ nFill = N_BUFFERS
  /\ ready = Blocks
  /\ \A k \in Blocks : block_seq[k] = k + 1 /\ buffer[k + 1] = PrimedBlock(k)

\* C6 as stated: when main is about to start playback, all N_BUFFERS blocks
\* hold synthesized frames and buffer_to_fill is N_BUFFERS - 1 ahead of the
\* buffer_playing that playback starts with, modulo N_BUFFERS.
C6_PrimedFillAhead ==
  pc = "start"
    => AllPrimed /\ (buffer_to_fill - buffer_playing) % N_BUFFERS = N_BUFFERS - 1

\* C6 amended: when main is about to start playback, all N_BUFFERS blocks
\* hold synthesized frames, buffer_to_fill is back at 0 and buffer_playing is
\* N_BUFFERS - 1: it is buffer_playing that is N_BUFFERS - 1 ahead of
\* buffer_to_fill, modulo N_BUFFERS.
C6_PrimedPlayAhead ==
  pc = "start"
    => /\ AllPrimed
       /\ buffer_to_fill = 0
       /\ (buffer_playing - buffer_to_fill) % N_BUFFERS = N_BUFFERS - 1

C6_Witness == pc = "start" /\ nGen = N_BUFFERS * BUFFER_SIZE /\ last_call = "filled"

\* C7: once playback has started, at most N_BUFFERS - 1 blocks are
\* filled-but-unconsumed.
C7_AtMostThreeReady ==
  Started => Cardinality(ready) <= N_BUFFERS - 1

\* C8: the transport stays in range: 0 <= sampleOfTick < samplesPerTick,
\* 0 <= tickOfBar < BAR_LEN, 0 <= bar < LOOP_BARS, and samplesPerTick >= 1.
C8_TransportInRange ==
  /\ samplesPerTick >= 1
  /\ sampleOfTick >= 0 /\ sampleOfTick < samplesPerTick
  /\ tickOfBar >= 0 /\ tickOfBar < BAR_LEN
  /\ bar >= 0 /\ bar < LOOP_BARS

C8_Witness ==
  /\ nGen = LOOP_BARS * BAR_LEN * samplesPerTick - 1
  /\ bar = LOOP_BARS - 1 /\ tickOfBar = BAR_LEN - 1 /\ sampleOfTick = samplesPerTick - 1

\* C9: every generate_sample call moves sampleOfTick on by one (back to 0
\* at samplesPerTick), and the bar changes exactly every
\* samplesPerTick * BAR_LEN calls: that many calls after the transport was
\* (b, 0, 0) it is ((b + 1) mod LOOP_BARS, 0, 0), and bar is b at every call
\* count in between.
C9_BarEveryBarLenTicks ==
  LET barCalls == samplesPerTick * BAR_LEN
  IN  /\ sampleOfTick = nGen % samplesPerTick
      /\ bar = (nGen \div barCalls) % LOOP_BARS
      /\ (nGen % barCalls = 0) => (tickOfBar = 0 /\ sampleOfTick = 0)

C9_Witness ==
  /\ nGen = 4 * samplesPerTick * BAR_LEN
  /\ bar = 4 /\ tickOfBar = 0 /\ sampleOfTick = 0

\* C10: the transport is back at (0, 0, 0) after exactly
\* LOOP_BARS * BAR_LEN * samplesPerTick calls, at no call count in between,
\* and again after every further such number of calls.
C10_LoopsToZero ==
  (nGen % (LOOP_BARS * BAR_LEN * samplesPerTick) = 0)
    <=> (bar = 0 /\ tickOfBar = 0 /\ sampleOfTick = 0)

C10_Witness ==
  /\ nGen = 2 * LOOP_BARS * BAR_LEN * samplesPerTick
  /\ bar = 0 /\ tickOfBar = 0 /\ sampleOfTick = 0

\* C11: the frame generate_sample returns at a given position of the
\* arrangement loop is the same in every iteration of the loop: whenever the
\* transport is at one of the first LogLen positions again, the call returns
\* what the call at that position returned in the first iteration.
C11_SameFrameEveryLoop ==
  (Len(first_ret) = LogLen /\ LinearPos < LogLen)
    => GenRet = first_ret[LinearPos + 1]

\* ---- properties of the sequencer's voices ----

Voices == 0..(N_VOICES - 1)
GenStep == nGen' = nGen + 1

\* line 214: the pattern cell of voice i at the current bar and tick
Cell(i) == patterns[bars[bar]][i + 1][tickOfBar]

\* C12: in a generate_sample call made at the first frame of a step
\* (sampleOfTick = 0), every voice whose cell holds the digit d (1..9) has
\* its amplitude read at cursor 1 and leaves the call with emphasis
\* (d - 1) * 12; every voice whose cell holds a space has its amplitude read
\* at the cursor it entered the call with and keeps its emphasis.
C12_TriggerSetsCursorAndEmph ==
  [][(GenStep /\ sampleOfTick = 0)
       => \A i \in Voices :
            LET d == Cell(i) - 48
            IN  /\ d \in 1..9 \/ Cell(i) = SPACE
                /\ d \in 1..9 => /\ read_pos'[i] = 1
                                 /\ voices'[i].emph = (d - 1) * 12
                /\ Cell(i) = SPACE => /\ read_pos'[i] = voices[i].pos
                                      /\ voices'[i].emph = voices[i].emph]_vars

\* the call at the top of the fifth bar has just triggered the hi-hat voice
\* with a '5' while the clap voice, whose cell is a space, stayed idle
C12_Witness ==
  /\ nGen = 4 * BarCalls + 1
  /\ read_pos[3] = 1 /\ voices[3].emph = 48 /\ voices[3].pos = 2
  /\ read_pos[1] = 0 /\ voices[1].emph = 0

\* C13: a voice that the call does not trigger has its cursor moved from
\* the value p it was read at to p + 1, except that a cursor at 0 stays 0
\* and a cursor whose successor is the waveform's length returns to 0; the
\* same holds from p = 1 in the call that triggers the voice.
C13_CursorLifecycle ==
  [][GenStep
       => \A i \in Voices :
            LET p == read_pos'[i]
                len == sounds[voices[i].sample].len
            IN  /\ ~(sampleOfTick = 0 /\ Cell(i) # SPACE) => p = voices[i].pos
                /\ p = 0 => voices'[i].pos = 0
                /\ (p # 0 /\ p + 1 < len) => voices'[i].pos = p + 1
                /\ (p # 0 /\ p + 1 = len) => voices'[i].pos = 0
                /\ p < len]_vars

\* the hi-hat voice, triggered at the top of the fifth bar, has just been
\* read at the last position of its waveform and is idle again
C13_Witness ==
  /\ nGen = 4 * BarCalls + sounds[3].len - 1
  /\ read_pos[3] = sounds[3].len - 1
  /\ voices[3].pos = 0

\* ---- properties of the mixing loop ----

\* C14: when a single voice sounds with amplitude A, the two channel sums
\* add up to A * (emph + volume) * 32 whatever its pan in 0..32.
C14_PanInvariance ==
  pc = "mixed"
    => \A i \in Voices :
         (\A j \in Voices \ {i} : samples[j] = 0)
           => output[1] + output[2] = samples[i] * (voices[i].emph + voices[i].volume) * 32

\* the kick voice at full emphasis and full positive amplitude, panned all
\* the way to output[0]
C14_Witness ==
  /\ pc = "mixed"
  /\ samples[0] = 32767 /\ voices[0].pan = 32 /\ voices[0].emph = 96
  /\ output[1] = 32767 * 288 * 32
  /\ output[2] = 0

\* line 256: one channel sum brought back to 16 bits
Narrow(x) == (x \div 32768) % 65536

\* C15: the frame word a generate_sample call returns, and drum_fill_buffer
\* stores in the slot it is filling, is made of the two channel sums of
\* that call brought back to 16 bits, one in each half of the word.
C15_FrameIsPackedMix ==
  [][GenStep
       => LET w == buffer'[buffer_to_fill + 1][fill_i + 1]
              lo == w % 65536
              hi == w \div 65536
          IN  /\ w = GenRet
              /\ \/ (hi = Narrow(output'[1]) /\ lo = Narrow(output'[2]))
                 \/ (lo = Narrow(output'[1]) /\ hi = Narrow(output'[2]))]_vars

\* ---- properties of the ring cursors ----

\* a step of drum_fill_buffer, from its guard to its return
FillStep == pc \in {"guard", "store"} /\ ~HandlerStep

\* what the claim says of dma_handler and drum_fill_buffer themselves
HandlerAndFillFrames ==
  /\ buffer_to_fill' # buffer_to_fill => FillStep
  /\ HandlerStep => UNCHANGED <<buffer_to_fill, buffer, bar, tickOfBar, sampleOfTick, voices>>
  /\ FillStep => buffer_playing' = buffer_playing

\* C16 as stated: buffer_playing is written by dma_handler only,
\* buffer_to_fill by drum_fill_buffer only; dma_handler leaves
\* buffer_to_fill, the blocks, the transport and the voices as they are, and
\* drum_fill_buffer leaves buffer_playing as it is.
C16_SingleWriter ==
  [][/\ buffer_playing' # buffer_playing => HandlerStep
     /\ HandlerAndFillFrames]_vars

\* C16 amended: buffer_playing is written by dma_handler and, before
\* playback has started, by the start-up code of main (lines 431 and 435);
\* once playback has started dma_handler is its only writer.  The rest is
\* as stated.
C16_SingleWriterOnceStarted ==
  [][/\ buffer_playing' # buffer_playing
          => \/ HandlerStep
             \/ (~Started /\ pc \in {"timing", "prime"})
     /\ HandlerAndFillFrames]_vars

\* in steady state, an interrupt has moved buffer_playing on while
\* drum_fill_buffer was in the middle of a block
C16_Witness ==
  /\ pc = "store"
  /\ fill_i > 0 /\ fill_i < BUFFER_SIZE
  /\ nFill > N_BUFFERS
  /\ nXfer >= 3
  /\ ~fill_clean

C19_ReadsInBounds ==
  (\A s \in DOMAIN sounds : sounds[s].len >= 2)
    => \A i \in Voices :
         /\ voices[i].sample \in 0..4
         /\ read_pos[i] >= 0 /\ read_pos[i] < sounds[voices[i].sample].len
         /\ voices[i].pos >= 0 /\ voices[i].pos < sounds[voices[i].sample].len

\* the hi-hat voice stands at the last position of its waveform, after the
\* call that read it at the position before
C19_Witness ==
  /\ nGen = 4 * BarCalls + sounds[3].len - 2
  /\ read_pos[3] = sounds[3].len - 2
  /\ voices[3].pos = sounds[3].len - 1

\* C20: with the shipped volumes and pans and every emphasis the patterns
\* lead to, no partial sum of output[0] or output[1] can leave the signed
\* 32-bit range whatever signed 16-bit amplitudes are read.  A partial sum is
\* the sum of vol * weight * amplitude over the first k voices; all vol and
\* weight being at least 0, its extremes over the amplitudes -32768..32767
\* are -32768 and 32767 times the sum u of vol * weight, and these lie
\* within -2^31..2^31-1 exactly if u <= 65536; u grows with k, so it is
\* largest for the sum over all N_VOICES voices.
C20_MixFitsInt32 ==
  /\ \A i \in Voices : Vol(voices[i]) >= 0 /\ voices[i].pan \in 0..32
  /\ \A ch \in {0, 1} : WorstUnits(voices, ch, N_VOICES) <= 65536

\* the loudest mix the arrangement leads to: the top of a bar of pattern 2,
\* kick at emphasis 96, hi-hat and perc at 48
C20_Witness ==
  /\ nGen = 4 * BarCalls + 1
  /\ voices[0].emph = 96 /\ voices[3].emph = 48 /\ voices[4].emph = 48
  /\ WorstUnits(voices, 0, N_VOICES) = 9856
  /\ samples[0] # 0 /\ samples[3] # 0 /\ samples[4] # 0

\* ---- progress of the producer ----

\* C18: with main and the completion interrupt both kept running,
\* drum_fill_buffer is not held up for good by its guard: after start-up,
\* when buffer_playing equals buffer_to_fill and the N_BUFFERS primed blocks
\* are all it has filled, it goes on to fill a further block.
C18_ProducerProgress ==
  (Started /\ nFill = N_BUFFERS) ~> (nFill > N_BUFFERS)

====
